---- MODULE Spec2Model ----
(***************************************************************************)
(* Heatmapper: xp03_heatmap/heatmapper.py and xp03_heatmap/topo.py.        *)
(*                                                                         *)
(* generate_map (the renderer), calculate_color (the colour scale) and     *)
(* generate_map_with_coordinates (stride resolution, fetch-or-cache, then  *)
(* render) as a state machine.  Python exceptions are outcomes: a function *)
(* either returns a value or raises, and an exception no try block catches *)
(* ends every caller on the stack.                                         *)
(*                                                                         *)
(* Numbers.  Python's float divisions are modelled by exact rationals      *)
(* (numerator, denominator); int() is truncation toward zero.  On the      *)
(* inputs enumerated here the exact results and CPython's IEEE-754 results *)
(* are the same integers.                                                  *)
(***************************************************************************)
EXTENDS Integers, Sequences, FiniteSets, TLC

VARIABLES
    disk,              \* working directory: cache file name -> raw payload
    image,             \* the output image file (filename)
    log,               \* one record per call of generate_map_with_coordinates
    pc,                \* the statement the running call is at
    caller,            \* the entry point that is on the stack
    topo_params,       \* generate_map_with_coordinates: its arguments ...
    image_width,
    image_height,
    latitude_stride,   \* ... and its locals
    longitude_stride,
    cache,             \* the local `cache`: the cache file's name
    topo_data,         \* generate_map: its arguments ...
    width,
    height,
    im,                \* ... the in-memory image: the rectangles drawn so far
    i,
    j,
    result,            \* what generate_map returned or raised
    sample,            \* calculate_color called alone: <<height, min, max>>
    color              \* ... and what it returned or raised

frameVars == <<topo_params, image_width, image_height, latitude_stride,
               longitude_stride, cache>>
renderVars == <<topo_data, width, height, im, i, j, result>>
colorVars == <<sample, color>>
vars == <<disk, image, log, pc, caller, frameVars, renderVars, colorVars>>

--------------------------------------------------------------------------
(* Bounds of the model. *)

\* longest sample sequence handed to generate_map directly
MaxLen == 4
\* calls of generate_map_with_coordinates in one behaviour
MaxCalls == 2
\* altitudes -MaxAlt .. MaxAlt when calculate_color is called alone
MaxAlt == 4

--------------------------------------------------------------------------
(* Python values. *)

Abs(x) == IF x < 0 THEN 0 - x ELSE x

\* int(n / d) for d # 0: the quotient truncated toward zero
PyInt(n, d) ==
    IF (n >= 0) = (d > 0) THEN Abs(n) \div Abs(d) ELSE 0 - (Abs(n) \div Abs(d))

\* n / d > 1 for d # 0
GreaterThanOne(n, d) == IF d > 0 THEN n > d ELSE n < d

Min(S) == CHOOSE x \in S : \A y \in S : x <= y
Max(S) == CHOOSE x \in S : \A y \in S : x >= y

Returned(v) == [exc |-> "none", val |-> v]
Raised(e) == [exc |-> e, val |-> <<>>]

--------------------------------------------------------------------------
(* heatmapper.calculate_color *)

calculate_color(h, min_height, max_height) ==
    IF h < 0
    THEN LET difference == Abs(min_height) IN
         IF difference = 0
         THEN Raised("ZeroDivisionError")
         ELSE Returned(<<0, 0, 255 - PyInt(Abs(h) * 255, difference)>>)
    ELSE LET difference == max_height IN
         IF difference = 0
         THEN Raised("ZeroDivisionError")
         ELSE Returned(<<0, 255 - PyInt(h * 255, difference), 0>>)

--------------------------------------------------------------------------
(* heatmapper.generate_map *)

\* a sample is e = [latitude, longitude, altitude]: e[0], e[1], e[2] in Python
all_lats(td) == {td[k][1] : k \in DOMAIN td}
all_lng(td) == {td[k][2] : k \in DOMAIN td}
all_heights(td) == [k \in DOMAIN td |-> td[k][3]]
Heights(td) == {td[k][3] : k \in DOMAIN td}

\* the quotient a / b kept exact, and k * (a / b)
Quot(a, b) == <<a, b>>
Times(k, q) == <<k * q[1], q[2]>>

\* `high` and `wide`, lines 55 and 56
high(td, h) == Quot(h, Cardinality(all_lats(td)))
wide(td, w) == Quot(w, Cardinality(all_lng(td)))

\* the index with the latitude fastest
height_count_by_rows(ci, cj, td) == cj + Cardinality(all_lats(td)) * ci

\* line 63; sequences are 0-based in Python and 1-based here
height_count(ci, cj, td) == ci + Cardinality(all_lng(td)) * cj

\* the rectangle of line 64
rectangle(ci, cj, td, w, h) ==
    <<<<Times(ci, wide(td, w)), Times(cj, high(td, h))>>,
      <<Times(ci + 1, wide(td, w)), Times(cj + 1, high(td, h))>>>>

\* Image.new('RGB', (width, height), ...): PIL raises ValueError for a negative
\* width or height, and creates an image without pixels for a width or
\* height of 0
ImageNewRaises(w, h) == w < 0 \/ h < 0

NoImage == [state |-> "absent", cells |-> <<>>]

\* lines 42-59 and 69-70: the sets, the cell size, the blank image
GM_Setup ==
    /\ pc = "gm_setup"
    /\ IF Cardinality(all_lats(topo_data)) = 0
       THEN \* height / len(all_lats): not a ValueError, so not caught
            /\ result' = "ZeroDivisionError"
            /\ pc' = "gm_done"
       ELSE IF ImageNewRaises(width, height)
       THEN \* except ValueError: return False
            /\ result' = "False"
            /\ pc' = "gm_done"
       ELSE /\ result' = result
            /\ pc' = "gm_paint"
    /\ im' = <<>>
    /\ i' = 0
    /\ j' = 0
    /\ UNCHANGED <<disk, image, log, caller, frameVars, topo_data, width, height,
                   colorVars>>

\* lines 61-64: one turn of the inner loop, cell (i, j)
GM_Paint ==
    /\ pc = "gm_paint"
    /\ LET R == Cardinality(all_lats(topo_data))
           C == Cardinality(all_lng(topo_data))
           n == height_count(i, j, topo_data)
       IN  IF n >= Len(topo_data)
           THEN \* all_heights[height_count]: IndexError, not caught
                /\ result' = "IndexError"
                /\ pc' = "gm_done"
                /\ UNCHANGED <<im, i, j>>
           ELSE LET fill == calculate_color(all_heights(topo_data)[n + 1],
                                            Min(Heights(topo_data)),
                                            Max(Heights(topo_data)))
                IN  IF fill.exc # "none"
                    THEN /\ result' = fill.exc
                         /\ pc' = "gm_done"
                         /\ UNCHANGED <<im, i, j>>
                    ELSE /\ im' = Append(im, [i |-> i, j |-> j, index |-> n,
                                              rect |-> rectangle(i, j, topo_data,
                                                                 width, height),
                                              fill |-> fill.val])
                         /\ result' = result
                         /\ IF j + 1 < R
                            THEN i' = i /\ j' = j + 1 /\ pc' = pc
                            ELSE /\ j' = 0
                                 /\ i' = i + 1
                                 /\ pc' = IF i + 1 < C THEN pc ELSE "gm_save"
    /\ UNCHANGED <<disk, image, log, caller, frameVars, topo_data, width, height,
                   colorVars>>

\* im.save(filename): <<what generate_map then returns or raises, the file>>.
\* PIL writes an image that has pixels.  For an image without pixels its
\* encoder raises, a ValueError (which line 69 catches) or a SystemError
\* depending on the format and the PIL version, after save has opened and so
\* truncated the file, which newer versions then remove if save created it.
SaveOutcomes(w, h) ==
    IF w > 0 /\ h > 0
    THEN {<<"True", "written">>}
    ELSE {<<"False", "truncated">>, <<"False", "absent">>,
          <<"SystemError", "truncated">>, <<"SystemError", "absent">>}

\* lines 66-68
GM_Save ==
    /\ pc = "gm_save"
    /\ \E o \in SaveOutcomes(width, height) :
          /\ result' = o[1]
          /\ image' = IF o[2] = "absent" /\ image.state # "absent"
                      THEN [state |-> "truncated", cells |-> <<>>]
                      ELSE [state |-> o[2],
                            cells |-> IF o[2] = "written" THEN im ELSE <<>>]
    /\ pc' = "gm_done"
    /\ UNCHANGED <<disk, log, caller, frameVars, topo_data, width, height, im, i, j,
                   colorVars>>

--------------------------------------------------------------------------
(* generate_map called on its own, with any sample sequence. *)

Latitudes == {10, 12}
Longitudes == {10, 12}
Altitudes == {-1, 0, 2}
Samples == {<<la, lo, al>> : la \in Latitudes, lo \in Longitudes, al \in Altitudes}

SeqsUpTo(S, n) == UNION {[1..k -> S] : k \in 0..n}

\* <<width, height>>
Dims == {<<90, 60>>, <<100, 0>>, <<100, -1>>}

NoFrame ==
    /\ topo_params = <<>>
    /\ image_width = 0
    /\ image_height = 0
    /\ latitude_stride = 0
    /\ longitude_stride = 0
    /\ cache = <<>>

NotCalled == [exc |-> "not called", val |-> <<>>]

NoColor ==
    /\ sample = <<>>
    /\ color = NotCalled

InitRender ==
    /\ disk = <<>>
    /\ image = NoImage
    /\ log = <<>>
    /\ pc = "gm_setup"
    /\ caller = "generate_map"
    /\ NoFrame
    /\ NoColor
    /\ topo_data \in SeqsUpTo(Samples, MaxLen)
    /\ \E d \in Dims : width = d[1] /\ height = d[2]
    /\ im = <<>>
    /\ i = 0
    /\ j = 0
    /\ result = "none"

NextRender == GM_Setup \/ GM_Paint \/ GM_Save

SpecRender == InitRender /\ [][NextRender]_vars

--------------------------------------------------------------------------
(* topo.read_web, topo.read_json_from_web, topo.read_json_from_file,       *)
(* topo.get_topo_data_from_string                                          *)

\* A response body is text that is a JSON object holding table.rows
\* ("table"), a JSON object without it ("object"), or no JSON ("text").
Body(kind, rows) == [kind |-> kind, rows |-> rows]

\* The URL of the query: the latitude range runs from max down to min, the
\* longitude range from min up to max.
Url(min_lat, max_lat, lat_step, min_lng, max_lng, lng_step) ==
    <<max_lat, lat_step, min_lat, min_lng, lng_step, max_lng>>

\* read_json_from_file: json.load, then json.dumps; None for a missing file
read_json_from_file(d, filename) ==
    IF filename \in DOMAIN d
    THEN IF d[filename].kind = "text"
         THEN Raised("JSONDecodeError")
         ELSE Returned(d[filename])
    ELSE Returned(Body("None", <<>>))

\* get_topo_data_from_string: json.loads(data_string)['table']['rows']
get_topo_data_from_string(data_string) ==
    IF data_string.kind = "None" THEN Raised("TypeError")
    ELSE IF data_string.kind = "text" THEN Raised("JSONDecodeError")
    ELSE IF data_string.kind = "object" THEN Raised("KeyError")
    ELSE Returned(data_string.rows)

--------------------------------------------------------------------------
(* heatmapper.generate_map_with_coordinates *)

\* 0.0083333 = CellNum / CellDen
CellNum == 83333
CellDen == 10000000

\* the quotient rounded to the nearest integer instead
AutoStrideRounded(span, img_height) ==
    IF img_height = 0
    THEN Raised("ZeroDivisionError")
    ELSE LET n == span * CellDen
             d == CellNum * img_height
         IN  Returned(IF GreaterThanOne(n, d)
                      THEN PyInt(2 * n + d, 2 * d) ELSE 1)

\* int(max(1, span / 0.0083333 / image_height))
AutoStride(span, img_height) ==
    IF img_height = 0
    THEN Raised("ZeroDivisionError")
    ELSE LET n == span * CellDen
             d == CellNum * img_height
         IN  Returned(IF GreaterThanOne(n, d) THEN PyInt(n, d) ELSE 1)

\* lines 129-130 and 132-133
ResolveStride(stride, lo, hi, img_height) ==
    IF stride = 0 THEN AutoStride(hi - lo, img_height) ELSE Returned(stride)

\* line 135: the six values are written out between fixed separators, so the
\* name and the six values determine each other
CacheName(min_lat, max_lat, lat_stride, min_lng, max_lng, lng_stride) ==
    <<min_lat, max_lat, lat_stride, min_lng, max_lng, lng_stride>>

\* the cache file is never found
NeverExists(d, filename) == FALSE

\* os.path.exists(cache)
Exists(d, filename) == filename \in DOMAIN d

\* the payload never reaches the disk
WriteNothing(d, filename, text) == d

\* lines 139-140: open(cache, 'w') and f.write(result)
WriteFile(d, filename, text) ==
    [f \in DOMAIN d \cup {filename} |-> IF f = filename THEN text ELSE d[f]]

\* the file opened before the fetch, and so left empty when the fetch fails
OpenThenFetch(d, filename, fetched) ==
    [f \in DOMAIN d \cup {filename} |->
        IF f = filename
        THEN IF fetched.exc # "none" THEN Body("text", <<>>) ELSE fetched.val
        ELSE d[f]]

\* lines 138-140: the file is opened only once the fetch has returned
FetchThenStore(d, filename, fetched) ==
    IF fetched.exc # "none" THEN d ELSE WriteFile(d, filename, fetched.val)

Entry(args) ==
    [args |-> args, key |-> <<>>, url |-> <<>>, cached |-> FALSE,
     fetch |-> "none", render |-> "none", outcome |-> "running"]

Update(field, value) == [log EXCEPT ![Len(log)][field] = value]
Finish(l, e) == [l EXCEPT ![Len(l)].outcome = e]

ClearFrame ==
    /\ topo_params' = <<>>
    /\ image_width' = 0
    /\ image_height' = 0
    /\ latitude_stride' = 0
    /\ longitude_stride' = 0
    /\ cache' = <<>>

ClearRender ==
    /\ topo_data' = <<>>
    /\ width' = 0
    /\ height' = 0
    /\ im' = <<>>
    /\ i' = 0
    /\ j' = 0
    /\ result' = "none"

\* what the remote service may answer, and how the request may fail
Grid == <<<<12, 10, 2>>, <<12, 12, 1>>, <<10, 10, -2>>, <<10, 12, 0>>>>
Sea == <<<<12, 10, -2>>, <<10, 10, 0>>>>
Ragged == <<<<12, 10, 2>>, <<10, 12, 1>>>>
WebResults ==
    {Returned(Body("table", Grid)), Returned(Body("table", Sea)),
     Returned(Body("table", Ragged)), Returned(Body("object", <<>>)),
     Returned(Body("text", <<>>)), Raised("URLError")}

\* the calls made: <<topo_params, image_width, image_height>>
StrideArgs == {<<0, 0>>, <<4, 10>>, <<0, 3>>, <<2, 0>>}
SizeArgs == {<<100, 80>>, <<100, 400>>, <<100, 0>>, <<100, -80>>}
CallArgs ==
    {<<<<57, 60, st[1], 22, 29, st[2]>>, sz[1], sz[2]>> :
        st \in StrideArgs, sz \in SizeArgs}

\* lines 122-135: the arguments, the strides, the cache file's name
GMWC_Call(args) ==
    /\ pc = "idle"
    /\ Len(log) < MaxCalls
    /\ LET p == args[1]
           lat == ResolveStride(p[3], p[1], p[2], args[3])
           lng == ResolveStride(p[6], p[4], p[5], args[3])
       IN  IF lat.exc # "none" \/ lng.exc # "none"
           THEN /\ log' = Append(log, [Entry(args) EXCEPT
                            !.outcome = IF lat.exc # "none" THEN lat.exc ELSE lng.exc])
                /\ pc' = "idle"
                /\ UNCHANGED frameVars
           ELSE /\ topo_params' = p
                /\ image_width' = args[2]
                /\ image_height' = args[3]
                /\ latitude_stride' = lat.val
                /\ longitude_stride' = lng.val
                /\ cache' = CacheName(p[1], p[2], lat.val, p[4], p[5], lng.val)
                /\ log' = Append(log, [Entry(args) EXCEPT
                            !.key = CacheName(p[1], p[2], lat.val, p[4], p[5], lng.val)])
                /\ pc' = "fetch_or_cache"
    /\ UNCHANGED <<disk, image, caller, renderVars, colorVars>>

\* lines 137-140
FetchOrCache ==
    /\ pc = "fetch_or_cache"
    /\ IF Exists(disk, cache)
       THEN /\ log' = Update("cached", TRUE)
            /\ pc' = "decode"
            /\ UNCHANGED <<disk, frameVars>>
       ELSE \E fetched \in WebResults :
            LET url == Url(topo_params[1], topo_params[2], latitude_stride,
                           topo_params[4], topo_params[5], longitude_stride)
                asked == [Update("url", url) EXCEPT ![Len(log)].fetch =
                              IF fetched.exc # "none" THEN "failed" ELSE "ok"]
            IN  /\ disk' = FetchThenStore(disk, cache, fetched)
                /\ IF fetched.exc # "none"
                   THEN /\ log' = Finish(asked, fetched.exc)
                        /\ pc' = "idle"
                        /\ ClearFrame
                   ELSE /\ log' = asked
                        /\ pc' = "decode"
                        /\ UNCHANGED frameVars
    /\ UNCHANGED <<image, caller, renderVars, colorVars>>

\* lines 142-144: the cache file is read and decoded, generate_map is called
Decode ==
    /\ pc = "decode"
    /\ LET text == read_json_from_file(disk, cache)
           rows == IF text.exc # "none" THEN text
                   ELSE get_topo_data_from_string(text.val)
       IN  IF rows.exc # "none"
           THEN /\ log' = Finish(log, rows.exc)
                /\ pc' = "idle"
                /\ ClearFrame
                /\ UNCHANGED renderVars
           ELSE /\ topo_data' = rows.val
                /\ width' = image_width
                /\ height' = image_height
                /\ pc' = "gm_setup"
                /\ UNCHANGED <<log, frameVars, im, i, j, result>>
    /\ UNCHANGED <<disk, image, caller, colorVars>>

\* lines 144-146: what generate_map returned is dropped and True returned;
\* what it raised is raised on
Return ==
    /\ pc = "gm_done"
    /\ caller = "generate_map_with_coordinates"
    /\ log' = Finish(Update("render", result),
                     IF result \in {"True", "False"} THEN "True" ELSE result)
    /\ pc' = "idle"
    /\ ClearFrame
    /\ ClearRender
    /\ UNCHANGED <<disk, image, caller, colorVars>>

Init ==
    /\ disk = <<>>
    /\ image = NoImage
    /\ log = <<>>
    /\ pc = "idle"
    /\ caller = "generate_map_with_coordinates"
    /\ NoFrame
    /\ NoColor
    /\ topo_data = <<>>
    /\ width = 0
    /\ height = 0
    /\ im = <<>>
    /\ i = 0
    /\ j = 0
    /\ result = "none"

Next ==
    \/ \E args \in CallArgs : GMWC_Call(args)
    \/ FetchOrCache
    \/ Decode
    \/ GM_Setup
    \/ GM_Paint
    \/ GM_Save
    \/ Return

Spec == Init /\ [][Next]_vars

--------------------------------------------------------------------------
(* calculate_color called on its own: a sample altitude of a non-empty     *)
(* sample set, with the set's minimum and maximum.                         *)

AltitudeRange == (0 - MaxAlt)..MaxAlt

InitColor ==
    /\ disk = <<>>
    /\ image = NoImage
    /\ log = <<>>
    /\ pc = "color_call"
    /\ caller = "calculate_color"
    /\ NoFrame
    /\ topo_data = <<>>
    /\ width = 0
    /\ height = 0
    /\ im = <<>>
    /\ i = 0
    /\ j = 0
    /\ result = "none"
    /\ \E S \in SUBSET AltitudeRange \ {{}} : \E h \in S :
          sample = <<h, Min(S), Max(S)>>
    /\ color = NotCalled

\* lines 82-87
CalculateColor ==
    /\ pc = "color_call"
    /\ color' = calculate_color(sample[1], sample[2], sample[3])
    /\ pc' = "color_done"
    /\ UNCHANGED <<disk, image, log, caller, frameVars, renderVars, sample>>

NextColor == CalculateColor

SpecColor == InitColor /\ [][NextColor]_vars

--------------------------------------------------------------------------
(* Properties. *)

Rows == Cardinality(all_lats(topo_data))
Cols == Cardinality(all_lng(topo_data))

\* the call log[n] has gone past the cache test of line 137
PastCacheTest(n) == n < Len(log) \/ pc # "fetch_or_cache"

\* C1: of two calls of generate_map_with_coordinates in a row with the same
\* arguments, the first of which fetched successfully (so found no cache
\* file), the second finds the cache file and sends no request: the two
\* calls make one remote fetch.
CacheIdempotence ==
    \A n \in 1..(Len(log) - 1) :
        (/\ log[n].args = log[n + 1].args
         /\ log[n].fetch = "ok"
         /\ PastCacheTest(n + 1))
        => /\ ~log[n].cached
           /\ log[n + 1].cached
           /\ log[n + 1].fetch = "none"
           /\ log[n + 1].url = <<>>

SecondCallReadCache ==
    /\ Len(log) >= 2
    /\ log[1].args = log[2].args
    /\ log[1].fetch = "ok"
    /\ log[2].cached
    /\ log[2].outcome = "True"

\* C2: generate_map on a sample sequence whose length is not R * C ends in a
\* failure (False or an exception) and writes no image.
MismatchFails ==
    (pc = "gm_done" /\ Len(topo_data) # Rows * Cols)
    => (result # "True" /\ image.state # "written")

\* C3: for a sample altitude h of a non-empty set, calculate_color(h, min,
\* max) returns a triple with red 0, green 0 when h < 0, blue 0 when h >= 0,
\* and the scaled channel in 0..255.
ColorChannels ==
    pc = "color_done"
    => /\ color.exc = "none"
       /\ color.val[1] = 0
       /\ (sample[1] < 0 => color.val[2] = 0 /\ color.val[3] \in 0..255)
       /\ (sample[1] >= 0 => color.val[3] = 0 /\ color.val[2] \in 0..255)

\* C4: calculate_color never divides by zero: with max 0 an altitude >= 0
\* gets (0, 255, 0), and with min 0 the negative branch gives (0, 0, 255).
ColorNeverDividesByZero ==
    pc = "color_done"
    => /\ color.exc # "ZeroDivisionError"
       /\ (sample[3] = 0 /\ sample[1] >= 0 => color = Returned(<<0, 255, 0>>))
       /\ (sample[2] = 0 /\ sample[1] < 0 => color = Returned(<<0, 0, 255>>))

\* the cell the claim describes for column ci and row cj
ClaimedRect(ci, cj) ==
    <<<<Quot(ci * width, Cols), Quot(cj * height, Rows)>>,
      <<Quot((ci + 1) * width, Cols), Quot((cj + 1) * height, Rows)>>>>

\* two exact quotients are the same number
SameNumber(q, r) == q[1] * r[2] = r[1] * q[2]

SameRect(a, b) ==
    \A c \in 1..2 : \A x \in 1..2 : SameNumber(a[c][x], b[c][x])

Consumed(cells) == {cells[k].index : k \in DOMAIN cells}

\* C5: for a sample sequence of length R * C, every cell painted is the cell
\* of a column i < C and a row j < R, has the rectangle
\* (i*width/C, j*height/R)-((i+1)*width/C, (j+1)*height/R), and is coloured
\* from the altitude of samples[i + C*j]; no index is consumed by two cells,
\* and when the loop has ended, and in any image file written, every index
\* below R * C is consumed.
GridIndexMapping ==
    Len(topo_data) = Rows * Cols
    => /\ \A k \in DOMAIN im :
            /\ im[k].i \in 0..(Cols - 1)
            /\ im[k].j \in 0..(Rows - 1)
            /\ im[k].index = im[k].i + Cols * im[k].j
            /\ SameRect(im[k].rect, ClaimedRect(im[k].i, im[k].j))
            /\ Returned(im[k].fill) =
                   calculate_color(topo_data[im[k].i + Cols * im[k].j + 1][3],
                                   Min(Heights(topo_data)), Max(Heights(topo_data)))
       /\ \A k, l \in DOMAIN im : im[k].index = im[l].index => k = l
       /\ (pc = "gm_save" => Consumed(im) = 0..(Rows * Cols - 1))
       /\ (image.state = "written" =>
              /\ image.cells = im
              /\ Consumed(im) = 0..(Rows * Cols - 1))

FullGridRendered ==
    /\ pc = "gm_done"
    /\ result = "True"
    /\ Rows = 2
    /\ Cols = 2
    /\ Len(topo_data) = 4
    /\ image.state = "written"
    /\ Len(image.cells) = 4
    /\ \E k \in 1..4 : image.cells[k].fill # <<0, 255, 0>>

\* C6: generate_map called with no samples, or with width <= 0 or height <=
\* 0, returns False and leaves the image file unwritten; the file is written
\* only once every cell is painted.
BadInputReturnsFalse ==
    /\ (pc = "gm_done" /\ (Len(topo_data) = 0 \/ width <= 0 \/ height <= 0))
       => (result = "False" /\ image = NoImage)
    /\ image.state # "absent" => Len(im) = Rows * Cols

\* C7: a call whose remote fetch fails raises the fetch's error to its
\* caller, leaves the disk as it was, with no cache file of its name, and
\* the next call with the same arguments sends the request again.
FailedFetchLeavesNoCache ==
    /\ [](\A n \in DOMAIN log :
            log[n].fetch = "failed"
            => /\ log[n].outcome = "URLError"
               /\ ~log[n].cached
               /\ (n = Len(log) => ~Exists(disk, log[n].key))
               /\ (/\ n < Len(log)
                   /\ log[n + 1].args = log[n].args
                   /\ PastCacheTest(n + 1))
                  => (~log[n + 1].cached /\ log[n + 1].fetch # "none"))
    /\ [][(log' # log /\ log'[Len(log')].fetch = "failed") => disk' = disk]_vars

RefetchedAfterFailure ==
    /\ Len(log) >= 2
    /\ log[1].fetch = "failed"
    /\ log[1].outcome = "URLError"
    /\ log[2].args = log[1].args
    /\ log[2].fetch = "ok"
    /\ log[2].outcome = "True"

\* the quotient span / 0.0083333 / image_height as n / d with d > 0
StrideNum(span, h) == IF h > 0 THEN span * CellDen ELSE 0 - span * CellDen
StrideDen(h) == CellNum * Abs(h)

\* s is the quotient truncated toward zero, or 1 if that is larger
IsTruncated(s, span, h) ==
    LET n == StrideNum(span, h)
        d == StrideDen(h)
    IN  IF n <= d THEN s = 1 ELSE s * d <= n /\ n < (s + 1) * d

\* s is the quotient rounded to the nearest integer, or 1 if that is larger
IsRounded(s, span, h) ==
    LET n == StrideNum(span, h)
        d == StrideDen(h)
    IN  IF 2 * n < 3 * d THEN s = 1
        ELSE (2 * s - 1) * d <= 2 * n /\ 2 * n < (2 * s + 1) * d

\* the strides of the query and of the cache file's name, once there are any
StridesOf(e) == <<e.key[3], e.key[6]>>
UrlStridesOf(e) == <<e.url[2], e.url[5]>>

\* C8 as stated: a stride that is not 0 is used as given, and a stride of 0
\* becomes max(1, round(span / 0.0083333 / image_height)), in the cache
\* file's name and in the query.
StrideRounded ==
    \A n \in DOMAIN log :
        LET e == log[n]
            p == e.args[1]
            h == e.args[3]
            Claimed(s, stride, span) ==
                IF stride # 0 THEN s = stride ELSE IsRounded(s, span, h)
        IN  /\ e.key # <<>> =>
                 /\ Claimed(e.key[3], p[3], p[2] - p[1])
                 /\ Claimed(e.key[6], p[6], p[5] - p[4])
            /\ e.url # <<>> => UrlStridesOf(e) = StridesOf(e)

\* C8 as the code has it: a stride that is not 0 is used as given; a stride of
\* 0 becomes int(max(1, span / 0.0083333 / image_height)), the quotient
\* truncated, an integer >= 1, with image_height the divisor on both axes;
\* with image_height 0 and a stride of 0 the call raises ZeroDivisionError
\* and has no stride, cache file name or query.
StrideTruncated ==
    \A n \in DOMAIN log :
        LET e == log[n]
            p == e.args[1]
            h == e.args[3]
            Resolved(s, stride, span) ==
                IF stride # 0 THEN s = stride
                ELSE s \in Nat /\ s >= 1 /\ IsTruncated(s, span, h)
        IN  /\ e.key # <<>> =>
                 /\ e.key[1] = p[1] /\ e.key[2] = p[2]
                 /\ e.key[4] = p[4] /\ e.key[5] = p[5]
                 /\ Resolved(e.key[3], p[3], p[2] - p[1])
                 /\ Resolved(e.key[6], p[6], p[5] - p[4])
            /\ e.url # <<>> => UrlStridesOf(e) = StridesOf(e)
            /\ (h = 0 /\ (p[3] = 0 \/ p[6] = 0))
               <=> (e.key = <<>> /\ e.outcome = "ZeroDivisionError")

AutoStrideTruncates ==
    \E n \in DOMAIN log :
        /\ log[n].args = <<<<57, 60, 0, 22, 29, 0>>, 100, 80>>
        /\ log[n].key = <<57, 60, 4, 22, 29, 10>>
        /\ log[n].fetch = "ok"
        /\ log[n].url = <<60, 4, 57, 22, 10, 29>>

\* C9: generate_map_with_coordinates returns True only if everything went
\* well: when generate_map returned False, having written no image, the call
\* returns False.
ReturnsFalseWhenRenderFails ==
    \A n \in DOMAIN log :
        log[n].render = "False" => log[n].outcome = "False"

\* C10: a cache file, once on the disk, is there after every step of every
\* later call, with the content it was given by the fetch that created it.
CacheEntryKept ==
    [][\A f \in DOMAIN disk : f \in DOMAIN disk' /\ disk'[f] = disk[f]]_vars

CacheEntryOutlivesCalls ==
    /\ Len(log) >= 2
    /\ pc = "idle"
    /\ log[1].fetch = "ok"
    /\ log[2].fetch = "ok"
    /\ log[2].key # log[1].key
    /\ DOMAIN disk = {log[1].key, log[2].key}
    /\ disk[log[1].key] # disk[log[2].key]

====
